---- MODULE Spec2Model ----
(***************************************************************************)
(* Model of the repository synchronisation engine of                       *)
(* smart-repository-manager-cli: the bulk git modes of SyncManager, the    *)
(* single-repository actions of RepositoryManager, the delete operations   *)
(* of StorageManager and the concurrent download-all path.                 *)
(*                                                                         *)
(* A repository is identified by its position in cli.repositories.  The    *)
(* local file system is abstracted to one value per repository:            *)
(*   "absent"   the directory repos_path/name does not exist               *)
(*   "nogit"    the directory exists, its .git directory does not          *)
(*   "broken"   directory and .git exist, `git rev-parse --git-dir` fails  *)
(*   "healthy"  directory and .git exist and the probe succeeds            *)
(***************************************************************************)
EXTENDS Integers, Sequences, FiniteSets, TLC

\* ---------------------------------------------------------------- bounds
MaxRepos == 2
MaxCmds == 2
MaxCpu == 3
MaxClock == 1
MaxRetries == 2
MaxUsers == 2
MaxEntries == 3
MaxMenuEntries == 5
MaxFiles == 3
MaxSize == 2

\* ------------------------------------------------------------- variables
VARIABLES
    ssh_url,        \* repo.ssh_url is set (TRUE) or None (FALSE), per record
    disk,           \* abstract state of repos_path/name, per record
    remote_ahead,   \* the remote holds commits the local clone lacks
    local_exists,   \* repo.local_exists
    need_update,    \* repo.need_update
    mode,           \* the handler the main thread is in ("menu" when none)
    pc,             \* its position in that handler
    repo_list,      \* the list the running bulk loop iterates
    idx,            \* number of loop iterations done
    stats,          \* the stats dict of the running / last bulk run
    results,        \* stats["results"]
    progress,       \* the reports made through _show_progress in the running
                    \* / last bulk run, in order
    broken_repos,   \* sync_with_repair's pre-scan result
    ops,            \* service calls issued by the running / last handler
    answer,         \* how the last handler's confirmation prompt was answered
    summaries,      \* number of summaries rendered
    logs,           \* the log files written by _save_sync_log, by name, in
                    \* the order of writing
    cmds,           \* number of handlers started (bounded by MaxCmds)
    prev_run,       \* what happened last: "none", "sync_all_ok" or "other"
    follows_clean,  \* the running sync-all directly follows a sync-all run
                    \* without failures, with no remote change in between
    html_url,       \* repo.html_url is set, per record
    running,        \* cli.running
    _stop_download, \* SyncManager._stop_download
    repo_workers,   \* max_workers of download-all's executor
    fut,            \* per submitted unit: "pending", "running", "cancelled"
                    \* or the kind of the result it returned
    yielded,        \* the futures as_completed has handed to the main loop
    completed,      \* download-all's local counter
    interrupted,    \* a SIGINT was delivered during download-all
    max_retries,    \* _run_step_with_retry: the max_retries in force
    retry_count,    \* its local retry_count
    _retry_counts,  \* cli._retry_counts, by step name
    step_name,      \* the step_name of the running / last invocation
    step_calls,     \* what each call of step_func in it did, in order
    retry_pc,       \* "idle", "loop" (at the while test) or "returned"
    retry_result,   \* the value the last invocation returned
    retry_runs,     \* number of invocations started
    users,          \* len(config.users): the saved users, by position
    active_user,    \* position of config.active_user (0: none)
    prompt_site,    \* the handler that called get_menu_choice
    min_choice,     \* get_menu_choice's min_choice
    max_choice,     \* get_menu_choice's max_choice
    menu_choice,    \* what get_menu_choice returned
    prompt_pc,      \* "idle", "input" (inside get_menu_choice), "returned"
    picked,         \* what the handler did with the choice
    entries,        \* number of lines read from the terminal
    current_menu,   \* cli.current_menu
    menu_stack,     \* cli.menu_stack
    frames,         \* the menu loops on the call stack, outermost first,
                    \* each with current_menu and len(menu_stack) at its entry
    pop_error,      \* menu_stack.pop() was called on an empty list
    backs,          \* number of times Back was chosen in a submenu
    files,          \* clean_log_files: the size of each listed item
    clean_i,        \* number of items its loop has gone through
    removed_items,  \* the positions of the items that were removed
    removed_count,  \* its local removed_count
    cleaned_size,   \* the freed size it reports
    clean_pc        \* "idle", "loop", "reported" or "returned"

vars == <<ssh_url, disk, remote_ahead, local_exists, need_update, mode, pc,
          repo_list, idx, stats, results, progress, broken_repos, ops, answer,
          summaries, logs, cmds, prev_run, follows_clean, html_url, running,
          _stop_download, repo_workers, fut, yielded, completed, interrupted,
          max_retries, retry_count, _retry_counts, step_name, step_calls,
          retry_pc, retry_result, retry_runs, users, active_user,
          prompt_site, min_choice, max_choice, menu_choice, prompt_pc,
          picked,
          entries, current_menu, menu_stack, frames, pop_error, backs,
          files, clean_i, removed_items, removed_count, cleaned_size,
          clean_pc>>

repoVars == <<ssh_url, disk, remote_ahead, local_exists, need_update>>
runVars == <<repo_list, idx, stats, results, progress, broken_repos,
             ops>>
outVars == <<summaries, logs>>
histVars == <<prev_run, follows_clean>>
dlVars == <<html_url, running, _stop_download, repo_workers, fut, yielded,
           completed, interrupted>>

retryVars == <<max_retries, retry_count, _retry_counts, step_name,
               step_calls, retry_pc, retry_result, retry_runs>>

promptVars == <<users, active_user, prompt_site, min_choice, max_choice,
                menu_choice, prompt_pc, picked, entries>>

\* What the synchronisation engine does not touch.
menuVars == <<current_menu, menu_stack, frames, pop_error, backs>>

cleanVars == <<files, clean_i, removed_items, removed_count, cleaned_size,
               clean_pc>>

auxVars == <<retryVars, promptVars, menuVars, cleanVars>>

\* --------------------------------------------------------------- helpers
AlreadyUpToDate == "Already up to date"

Repos == 1..Len(ssh_url)

DiskStates == {"absent", "nogit", "broken", "healthy"}

\* repo_path.exists()
PathExists(d) == d # "absent"

\* repo_path.exists() and (repo_path / '.git').exists()
HasClone(d) == d \in {"broken", "healthy"}

Bump(s, k) == [s EXCEPT ![k] = @ + 1]

\* A counter a mode does not keep reads as 0.
Counter(s, k) == IF k \in DOMAIN s THEN s[k] ELSE 0

\* The records of a list that satisfy a test, in list order.
RECURSIVE FilterSeq(_, _)
FilterSeq(seq, keep) ==
    IF seq = <<>> THEN <<>>
    ELSE IF Head(seq) \in keep THEN <<Head(seq)>> \o FilterSeq(Tail(seq), keep)
         ELSE FilterSeq(Tail(seq), keep)

\* The loaded list walked from its last record.
AllReposReversed == [i \in Repos |-> Len(ssh_url) + 1 - i]

\* cli.repositories, in the order it was loaded.
AllRepos == [i \in Repos |-> i]

\* The records with an ssh_url whose clone is on disk.
Cloned == {r \in Repos : ssh_url[r] /\ HasClone(disk[r])}

\* "repaired" in message.lower() or "re-cloned" in message.lower()
RepairMessages == {"Repository repaired (re-cloned)"}
HasRepairMarker(msg) == msg \in RepairMessages

\* ------------------------------------------- version-control service
\* SyncService.sync_single_repository(user, repo, action): the outcome and
\* the state of the local directory afterwards.  net is the environment's
\* choice: whether the remote can be reached for this call.
ServiceClone(r, d, net) ==
    IF ssh_url[r] /\ ~PathExists(d) /\ net
    THEN [ok |-> TRUE, msg |-> "Cloned", disk |-> "healthy", ahead |-> FALSE]
    ELSE [ok |-> FALSE, msg |-> "error", disk |-> d,
          ahead |-> remote_ahead[r] /\ d = "healthy"]

ServicePull(r, d, net) ==
    IF d = "healthy" /\ net
    THEN [ok |-> TRUE,
          msg |-> IF remote_ahead[r] THEN "Updated" ELSE AlreadyUpToDate,
          disk |-> "healthy", ahead |-> FALSE]
    ELSE [ok |-> FALSE, msg |-> "error", disk |-> d, ahead |-> remote_ahead[r]]

\* "sync": a healthy clone is pulled; a broken or missing one is removed
\* and cloned afresh.
ServiceRepair(r, d, net) ==
    IF d = "healthy"
    THEN ServicePull(r, d, net)
    ELSE IF ssh_url[r] /\ net
         THEN [ok |-> TRUE, msg |-> "Repository repaired (re-cloned)",
               disk |-> "healthy", ahead |-> FALSE]
         ELSE [ok |-> FALSE, msg |-> "error", disk |-> "absent", ahead |-> FALSE]

\* d: the state of the directory when the call is made.
sync_single_repository(r, action, d, net) ==
    CASE action = "clone" -> ServiceClone(r, d, net)
      [] action = "pull"  -> ServicePull(r, d, net)
      [] action = "sync"  -> ServiceRepair(r, d, net)

\* SyncService.check_repository_needs_update(user, repo)[0].  newer: the
\* verdict of the local-against-remote comparison, which is the service's
\* heuristic; err: the comparison failed and the failure is swallowed.
check_repository_needs_update(ssh, d, newer, err) ==
    IF ~ssh THEN FALSE
    ELSE IF ~HasClone(d) THEN TRUE
    ELSE IF err THEN FALSE
    ELSE newer

\* _show_progress(completed, total, current_item, operation): the report as
\* it is displayed, kept with done, the number of units of work whose result
\* the run holds when the call is made.
progress_report(completed_count, total_count, done) ==
    [completed_count |-> completed_count, total_count |-> total_count,
     done |-> done]

\* The entry a handler leaves in ops for one service call.
Op(r, action, d, net, ok) ==
    [repo |-> r, action |-> action, clone |-> HasClone(d), ssh |-> ssh_url[r],
     net |-> net, ok |-> ok]

\* logs_dir / f"{safe_op_name}_{timestamp}.json": the directory is the
\* user's, the operation name is the handler's, and the timestamp
\* (%Y%m%d_%H%M%S) is the clock second sec of the write.
LogFileName(op, sec) == <<op, sec>>

\* The clock seconds a write can fall in: the second of the session's first
\* write is taken as 0, and the clock does not run backwards.
LogSeconds == IF logs = <<>> THEN {0} ELSE logs[Len(logs)][2]..MaxClock

\* No download-all is under way.
DownloadIdle ==
    /\ running = TRUE
    /\ _stop_download = FALSE
    /\ repo_workers = 0
    /\ fut = <<>>
    /\ yielded = {}
    /\ completed = 0
    /\ interrupted = FALSE

\* No step has been run with retry: __init__ leaves _retry_counts empty.
RetryIdle ==
    /\ max_retries = 0
    /\ retry_count = 0
    /\ _retry_counts = <<>>
    /\ step_name = "none"
    /\ step_calls = <<>>
    /\ retry_pc = "idle"
    /\ retry_result = FALSE
    /\ retry_runs = 0

\* No prompt is open and no user is saved.
PromptIdle ==
    /\ users = 0
    /\ active_user = 0
    /\ prompt_site = "none"
    /\ min_choice = 0
    /\ max_choice = 0
    /\ menu_choice = 0
    /\ prompt_pc = "idle"
    /\ picked = "none"
    /\ entries = 0

\* __init__: current_menu = "main", menu_stack = []; no menu loop runs.
MenuIdle ==
    /\ current_menu = "main"
    /\ menu_stack = <<>>
    /\ frames = <<>>
    /\ pop_error = FALSE
    /\ backs = 0

\* clean_log_files is not running and has listed nothing.
CleanIdle ==
    /\ files = <<>>
    /\ clean_i = 0
    /\ removed_items = {}
    /\ removed_count = 0
    /\ cleaned_size = 0
    /\ clean_pc = "idle"

AuxIdle == RetryIdle /\ PromptIdle /\ MenuIdle /\ CleanIdle

\* ------------------------------------------------------------------ Init
\* The state after construction and the checkup: step 7 sets local_exists
\* for every record whose directory and .git directory exist.
Init ==
    /\ \E n \in 0..MaxRepos :
          /\ ssh_url \in [1..n -> BOOLEAN]
          /\ disk \in [1..n -> DiskStates]
          /\ remote_ahead \in [1..n -> BOOLEAN]
          /\ need_update \in [1..n -> BOOLEAN]
    /\ \A r \in DOMAIN disk : remote_ahead[r] => disk[r] = "healthy"
    /\ local_exists = [r \in DOMAIN disk |-> HasClone(disk[r])]
    /\ mode = "menu"
    /\ pc = "menu"
    /\ repo_list = <<>>
    /\ idx = 0
    /\ stats = [total |-> 0]
    /\ results = <<>>
    /\ progress = <<>>
    /\ broken_repos = {}
    /\ ops = <<>>
    /\ answer = "none"
    /\ summaries = 0
    /\ logs = <<>>
    /\ cmds = 0
    /\ prev_run = "none"
    /\ follows_clean = FALSE
    /\ html_url = [r \in DOMAIN disk |-> TRUE]
    /\ DownloadIdle
    /\ AuxIdle

\* A handler can be started from the menu.
AtMenu == mode = "menu" /\ pc = "menu" /\ cmds < MaxCmds

\* A handler that writes its log file before it asks.
ReturnEarlyLogged(m, how) ==
    /\ answer' = how
    /\ cmds' = cmds + 1
    /\ mode' = m
    /\ pc' = "return"
    /\ prev_run' = "other"
    /\ logs' = Append(logs, LogFileName(m, 0))
    /\ UNCHANGED <<repoVars, runVars, summaries, follows_clean, dlVars>>

\* The handler m returns before doing anything: how records the reason
\* ("no": the confirmation was declined).
ReturnEarly(m, how) ==
    /\ answer' = how
    /\ cmds' = cmds + 1
    /\ mode' = m
    /\ pc' = "return"
    /\ prev_run' = "other"
    /\ UNCHANGED <<repoVars, runVars, outVars, follows_clean, dlVars>>

\* The handler enters its loop over list with fresh statistics.
EnterLoop(m, list, s, broken) ==
    /\ answer' = "yes"
    /\ cmds' = cmds + 1
    /\ mode' = m
    /\ pc' = "loop"
    /\ repo_list' = list
    /\ idx' = 0
    /\ stats' = s
    /\ results' = <<>>
    /\ progress' = <<>>
    /\ broken_repos' = broken
    /\ ops' = <<>>
    /\ follows_clean' = (m = "sync_all" /\ prev_run = "sync_all_ok")
    /\ prev_run' = "other"
    /\ UNCHANGED <<repoVars, outVars, dlVars>>

\* The service call of one loop iteration has acted on the directory of r.
ApplyOutcome(r, out) ==
    /\ disk' = [disk EXCEPT ![r] = out.disk]
    /\ remote_ahead' = [remote_ahead EXCEPT ![r] = out.ahead]
    /\ UNCHANGED ssh_url

LoopAt(m) == mode = m /\ pc = "loop" /\ idx < Len(repo_list)

\* A loop that breaks at the first failure.
loop_advance_break(i, n, ok) == IF ok THEN i + 1 ELSE n

\* `for i, repo in enumerate(...)`: whatever the outcome ok of iteration
\* i + 1 of n, the loop goes on with the next record.
loop_advance(i, n, ok) == i + 1

LoopFrame == UNCHANGED <<mode, pc, repo_list, broken_repos, answer, outVars,
                         cmds, histVars, dlVars>>

\* ------------------------------------------------ sync_all_repositories
sync_all_stats(n) ==
    [synced |-> 0, failed |-> 0, skipped |-> 0, total |-> n, successful |-> 0]

\* A fold that counts an 'Already up to date' success twice.
sync_all_fold_twice(s, ok, msg) ==
    IF ok
    THEN IF msg = AlreadyUpToDate
         THEN Bump(Bump(s, "skipped"), "successful")
         ELSE Bump(Bump(s, "synced"), "successful")
    ELSE Bump(s, "failed")

sync_all_fold(s, ok, msg) ==
    IF ok
    THEN IF msg = AlreadyUpToDate
         THEN Bump(s, "skipped")
         ELSE Bump(Bump(s, "synced"), "successful")
    ELSE Bump(s, "failed")

sync_all_action(r) == IF local_exists[r] THEN "pull" ELSE "clone"

sync_all_repositories_start ==
    /\ AtMenu
    /\ \E yes \in BOOLEAN :
          IF yes
          THEN EnterLoop("sync_all", AllRepos, sync_all_stats(Len(AllRepos)), {})
          ELSE ReturnEarly("sync_all", "no")
    /\ UNCHANGED auxVars

sync_all_repositories_step ==
    /\ LoopAt("sync_all")
    /\ \E net \in BOOLEAN :
          LET r == repo_list[idx + 1]
              action == sync_all_action(r)
              out == sync_single_repository(r, action, disk[r], net)
          IN /\ ApplyOutcome(r, out)
             /\ ops' = Append(ops, Op(r, action, disk[r], net, out.ok))
             /\ progress' = Append(progress,
                    progress_report(idx + 1, Len(repo_list), Len(results)))
             /\ results' = Append(results,
                    [repo |-> r, success |-> out.ok, message |-> out.msg])
             /\ stats' = sync_all_fold(stats, out.ok, out.msg)
             /\ idx' = loop_advance(idx, Len(repo_list), out.ok)
             /\ UNCHANGED <<local_exists, need_update>>
             /\ LoopFrame
    /\ UNCHANGED auxVars

\* ------------------------------------------- update_needed_repositories
\* cli.get_need_update_repos(): the records the decision engine reports as
\* needing an update; errs are the records whose comparison fails.
get_need_update_repos(newer, errs) ==
    FilterSeq(AllRepos,
              {r \in Repos : check_repository_needs_update(
                                 ssh_url[r], disk[r], r \in newer, r \in errs)})

update_needed_stats(n) ==
    [updated |-> 0, failed |-> 0, total |-> n, successful |-> 0]

update_needed_fold(s, ok, msg) ==
    IF ok THEN Bump(Bump(s, "updated"), "successful") ELSE Bump(s, "failed")

update_needed_repositories_start ==
    /\ AtMenu
    /\ IF Len(ssh_url) = 0
       THEN ReturnEarly("update_needed", "not loaded")
       ELSE \E newer \in SUBSET Cloned, errs \in SUBSET Cloned :
              LET list == get_need_update_repos(newer, errs)
              IN IF list = <<>>
                 THEN ReturnEarly("update_needed", "nothing to do")
                 ELSE \E yes \in BOOLEAN :
                        IF yes
                        THEN EnterLoop("update_needed", list,
                                       update_needed_stats(Len(list)), {})
                        ELSE ReturnEarly("update_needed", "no")
    /\ UNCHANGED auxVars

update_needed_repositories_step ==
    /\ LoopAt("update_needed")
    /\ \E net \in BOOLEAN :
          LET r == repo_list[idx + 1]
              out == sync_single_repository(r, "pull", disk[r], net)
          IN /\ ApplyOutcome(r, out)
             /\ ops' = Append(ops, Op(r, "pull", disk[r], net, out.ok))
             /\ progress' = Append(progress,
                    progress_report(idx + 1, Len(repo_list), Len(results)))
             /\ results' = Append(results,
                    [repo |-> r, success |-> out.ok, message |-> out.msg])
             /\ stats' = update_needed_fold(stats, out.ok, out.msg)
             /\ idx' = loop_advance(idx, Len(repo_list), out.ok)
             /\ UNCHANGED <<local_exists, need_update>>
             /\ LoopFrame
    /\ UNCHANGED auxVars

\* -------------------------------------------- sync_missing_repositories
\* A selection that forgets the ssh_url test.
missing_repos_any == FilterSeq(AllRepos, {r \in Repos : ~HasClone(disk[r])})

missing_repos == FilterSeq(AllRepos, {r \in Repos : ssh_url[r] /\ ~HasClone(disk[r])})

sync_missing_stats(n) ==
    [cloned |-> 0, failed |-> 0, total |-> n, successful |-> 0]

sync_missing_fold(s, ok, msg) ==
    IF ok THEN Bump(Bump(s, "cloned"), "successful") ELSE Bump(s, "failed")

\* repo.update_local_status(repos_path): the flag as the directory now is.
update_local_status(d) == HasClone(d)

sync_missing_repositories_start ==
    /\ AtMenu
    /\ IF Len(ssh_url) = 0
       THEN ReturnEarly("sync_missing", "not loaded")
       ELSE IF missing_repos = <<>>
            THEN ReturnEarly("sync_missing", "nothing to do")
            ELSE \E yes \in BOOLEAN :
                   IF yes
                   THEN EnterLoop("sync_missing", missing_repos,
                                  sync_missing_stats(Len(missing_repos)), {})
                   ELSE ReturnEarly("sync_missing", "no")
    /\ UNCHANGED auxVars

sync_missing_repositories_step ==
    /\ LoopAt("sync_missing")
    /\ \E net \in BOOLEAN :
          LET r == repo_list[idx + 1]
              out == sync_single_repository(r, "clone", disk[r], net)
          IN /\ ApplyOutcome(r, out)
             /\ ops' = Append(ops, Op(r, "clone", disk[r], net, out.ok))
             /\ progress' = Append(progress,
                    progress_report(idx + 1, Len(repo_list), Len(results)))
             /\ results' = Append(results,
                    [repo |-> r, success |-> out.ok, message |-> out.msg])
             /\ stats' = sync_missing_fold(stats, out.ok, out.msg)
             /\ local_exists' = IF out.ok
                                THEN [local_exists EXCEPT ![r] = update_local_status(out.disk)]
                                ELSE local_exists
             /\ idx' = loop_advance(idx, Len(repo_list), out.ok)
             /\ UNCHANGED need_update
             /\ LoopFrame
    /\ UNCHANGED auxVars

\* ----------------------------------------------------- sync_with_repair
\* subprocess.run(['git', '-C', path, 'rev-parse', '--git-dir'], timeout=5)
\* on a directory that has a .git: it raises when it times out (timeout),
\* and returns code 0 exactly for a healthy clone.
rev_parse(d, timeout) ==
    IF timeout THEN "raises" ELSE IF d = "healthy" THEN "ok" ELSE "nonzero"

\* A pre-scan that lets a probe that raises pass.
repair_prescan_lenient(slow) ==
    {r \in Repos : /\ ssh_url[r]
                   /\ PathExists(disk[r])
                   /\ (disk[r] = "nogit"
                       \/ rev_parse(disk[r], r \in slow) = "nonzero")}

\* The pre-scan: records with ssh_url whose directory exists and has no
\* .git, or whose probe fails or raises (slow: the probes that time out).
repair_prescan(slow) ==
    {r \in Repos : /\ ssh_url[r]
                   /\ PathExists(disk[r])
                   /\ (disk[r] = "nogit"
                       \/ rev_parse(disk[r], r \in slow) # "ok")}

sync_with_repair_stats(n) ==
    [synced |-> 0, failed |-> 0, skipped |-> 0, repaired |-> 0, total |-> n,
     successful |-> 0]

\* A fold that does not know the 'Already up to date' sentinel.
sync_with_repair_fold_plain(s, ok, msg) ==
    IF ok
    THEN IF HasRepairMarker(msg)
         THEN Bump(Bump(s, "repaired"), "successful")
         ELSE Bump(Bump(s, "synced"), "successful")
    ELSE Bump(s, "failed")

sync_with_repair_fold(s, ok, msg) ==
    IF ok
    THEN IF HasRepairMarker(msg)
         THEN IF msg = AlreadyUpToDate
              THEN Bump(Bump(Bump(s, "repaired"), "successful"), "skipped")
              ELSE Bump(Bump(s, "repaired"), "successful")
         ELSE IF msg = AlreadyUpToDate
              THEN Bump(s, "skipped")
              ELSE Bump(Bump(s, "synced"), "successful")
    ELSE Bump(s, "failed")

sync_with_repair_start ==
    /\ AtMenu
    /\ IF Len(ssh_url) = 0
       THEN ReturnEarly("repair", "not loaded")
       ELSE \E yes \in BOOLEAN :
              IF yes
              THEN \E slow \in SUBSET {r \in Repos : disk[r] = "healthy"} :
                     EnterLoop("repair", AllRepos,
                               sync_with_repair_stats(Len(AllRepos)),
                               repair_prescan(slow))
              ELSE ReturnEarly("repair", "no")
    /\ UNCHANGED auxVars

sync_with_repair_step ==
    /\ LoopAt("repair")
    /\ LET r == repo_list[idx + 1]
       IN IF ~ssh_url[r]
          THEN /\ stats' = Bump(stats, "skipped")
               /\ idx' = loop_advance(idx, Len(repo_list), TRUE)
               /\ UNCHANGED <<repoVars, results, progress, ops>>
               /\ LoopFrame
          ELSE \E net \in BOOLEAN :
                 LET out == sync_single_repository(r, "sync", disk[r], net)
                 IN /\ ApplyOutcome(r, out)
                    /\ ops' = Append(ops, Op(r, "sync", disk[r], net, out.ok))
                    /\ progress' = Append(progress,
                           progress_report(idx + 1, Len(repo_list), Len(results)))
                    /\ results' = Append(results,
                           [repo |-> r, success |-> out.ok, message |-> out.msg])
                    /\ stats' = sync_with_repair_fold(stats, out.ok, out.msg)
                    /\ idx' = loop_advance(idx, Len(repo_list), out.ok)
                    /\ UNCHANGED <<local_exists, need_update>>
                    /\ LoopFrame
    /\ UNCHANGED auxVars

\* ---------------------------------------------------- reclone_all_repos
reclone_all_stats(n) ==
    [cloned |-> 0, failed |-> 0, skipped |-> 0, total |-> n, successful |-> 0]

reclone_all_fold(s, ok, msg) ==
    IF ok THEN Bump(Bump(s, "cloned"), "successful") ELSE Bump(s, "failed")

\* cli.file_operations.safe_remove(repo_path): the directory afterwards.
safe_remove(d) == "absent"

\* The calls in the order of a clone issued ahead of the removal.
reclone_calls_swapped(r, d, removed, net, ok) ==
    <<Op(r, "clone", removed, net, ok), Op(r, "remove", d, TRUE, TRUE)>>

\* The calls of one iteration, in their order: safe_remove on the directory
\* in state d, then the clone on what the removal left.
reclone_calls(r, d, removed, net, ok) ==
    <<Op(r, "remove", d, TRUE, TRUE), Op(r, "clone", removed, net, ok)>>

reclone_all_repos_start ==
    /\ AtMenu
    /\ \E yes \in BOOLEAN :
          IF yes
          THEN EnterLoop("reclone_all", AllRepos, reclone_all_stats(Len(AllRepos)), {})
          ELSE ReturnEarly("reclone_all", "no")
    /\ UNCHANGED auxVars

reclone_all_repos_step ==
    /\ LoopAt("reclone_all")
    /\ \E net \in BOOLEAN :
          LET r == repo_list[idx + 1]
              removed == safe_remove(disk[r])
              out == sync_single_repository(r, "clone", removed, net)
          IN /\ ApplyOutcome(r, out)
             /\ ops' = ops \o reclone_calls(r, disk[r], removed, net, out.ok)
             /\ progress' = Append(progress,
                    progress_report(idx + 1, Len(repo_list), Len(results)))
             /\ results' = Append(results,
                    [repo |-> r, success |-> out.ok, message |-> out.msg])
             /\ stats' = reclone_all_fold(stats, out.ok, out.msg)
             /\ idx' = loop_advance(idx, Len(repo_list), out.ok)
             /\ UNCHANGED <<local_exists, need_update>>
             /\ LoopFrame
    /\ UNCHANGED auxVars

\* ------------------------------------------------- end of a bulk git run
BulkModes == {"sync_all", "update_needed", "sync_missing", "repair", "reclone_all"}

\* cli.show_sync_summary(stats, operation)
show_sync_summary ==
    /\ mode \in BulkModes /\ pc = "loop" /\ idx = Len(repo_list)
    /\ pc' = "log"
    /\ summaries' = summaries + 1
    /\ UNCHANGED <<repoVars, runVars, mode, answer, logs, cmds, histVars, dlVars>>
    /\ UNCHANGED auxVars

\* _save_sync_log(operation_name, stats).  write_ok: the file could be
\* opened and written; the function catches nothing when it could not.
_save_sync_log ==
    /\ mode \in BulkModes /\ pc = "log"
    /\ \E write_ok \in BOOLEAN, sec \in LogSeconds :
          IF write_ok
          THEN /\ logs' = Append(logs, LogFileName(mode, sec))
               /\ pc' = "return"
               /\ prev_run' = IF mode = "sync_all" /\ stats.failed = 0
                              THEN "sync_all_ok" ELSE "other"
          ELSE /\ logs' = logs
               /\ pc' = "log_failed"
               /\ prev_run' = "other"
    /\ UNCHANGED <<repoVars, runVars, mode, answer, summaries, cmds,
                   follows_clean, dlVars>>
    /\ UNCHANGED auxVars

\* The exception of a failed log write leaves the handler and the menu
\* loops, none of which catches it, and ends run_full_checkup.
log_error_propagates ==
    /\ pc = "log_failed"
    /\ mode' = "terminated"
    /\ pc' = "exited"
    /\ UNCHANGED <<repoVars, runVars, answer, outVars, cmds, histVars, dlVars>>
    /\ UNCHANGED auxVars

\* The handler has returned to its menu loop, which waits for Enter and
\* shows the menu again; the handler's locals are gone.
wait_for_enter ==
    /\ pc = "return"
    /\ mode' = "menu"
    /\ pc' = "menu"
    /\ answer' = "none"
    /\ follows_clean' = FALSE
    /\ repo_list' = <<>> /\ idx' = 0 /\ stats' = [total |-> 0]
    /\ results' = <<>> /\ broken_repos' = {} /\ ops' = <<>>
    /\ progress' = <<>>
    /\ UNCHANGED <<repoVars, outVars, cmds, prev_run, html_url, running>>
    /\ _stop_download' = _stop_download /\ repo_workers' = 0 /\ fut' = <<>>
    /\ yielded' = {} /\ completed' = 0 /\ interrupted' = FALSE
    /\ UNCHANGED auxVars

\* SmartGitCLI._show_sync_summary(stats, operation), the summary renderer of
\* cli_base: it prints the integer fields and then reads stats["durations"]
\* without asking whether the key is there.
_show_sync_summary(s) ==
    IF "durations" \in DOMAIN s THEN "shown" ELSE "KeyError"

\* clean_stats of _save_sync_log: the statistics without 'durations'.
clean_stats(s) == [k \in DOMAIN s \ {"durations"} |-> s[k]]

\* log_data of _save_sync_log; user: a user is loaded.
log_data(op, s, user) ==
    [operation |-> op,
     username |-> IF user THEN "user" ELSE "unknown",
     statistics |-> clean_stats(s),
     repositories_total |-> Len(ssh_url)]

\* ------------------------------------------- single-repository actions
\* A handler that runs in one go and then returns to its menu loop.
Returns(m, how) ==
    /\ answer' = how
    /\ cmds' = cmds + 1
    /\ mode' = m
    /\ pc' = "return"
    /\ prev_run' = "other"
    /\ UNCHANGED <<repo_list, idx, stats, results, progress, broken_repos, outVars,
                   follows_clean, ssh_url, dlVars>>

\* _show_repository_actions offers Update when local_exists and need_update.
_update_single_repository ==
    /\ AtMenu
    /\ \E r \in Repos, net \in BOOLEAN :
          /\ local_exists[r] /\ need_update[r]
          /\ LET out == sync_single_repository(r, "pull", disk[r], net)
             IN /\ disk' = [disk EXCEPT ![r] = out.disk]
                /\ remote_ahead' = [remote_ahead EXCEPT ![r] = out.ahead]
                /\ ops' = <<Op(r, "pull", disk[r], net, out.ok)>>
                /\ need_update' = IF out.ok /\ out.msg = AlreadyUpToDate
                                  THEN [need_update EXCEPT ![r] = FALSE]
                                  ELSE need_update
                /\ UNCHANGED local_exists
                /\ Returns("update_single", "yes")
    /\ UNCHANGED auxVars

\* Offered when the record is not local_exists.
_clone_single_repository ==
    /\ AtMenu
    /\ \E r \in Repos, net \in BOOLEAN, newer \in BOOLEAN :
          /\ ~local_exists[r]
          /\ LET out == sync_single_repository(r, "clone", disk[r], net)
             IN /\ disk' = [disk EXCEPT ![r] = out.disk]
                /\ remote_ahead' = [remote_ahead EXCEPT ![r] = out.ahead]
                /\ ops' = <<Op(r, "clone", disk[r], net, out.ok)>>
                /\ local_exists' = IF out.ok THEN [local_exists EXCEPT ![r] = TRUE]
                                   ELSE local_exists
                /\ need_update' = IF out.ok
                                  THEN [need_update EXCEPT ![r] =
                                          check_repository_needs_update(
                                              ssh_url[r], out.disk, newer, FALSE)]
                                  ELSE need_update
                /\ Returns("clone_single", "yes")
    /\ UNCHANGED auxVars

\* Offered when local_exists.  rm_ok: shutil.rmtree returns (it raises
\* otherwise, and the menu's handler reports the error); again: the answer
\* to "Clone anyway?" when the directory was not there to remove.
_reclone_single_repository ==
    /\ AtMenu
    /\ \E r \in Repos, yes \in BOOLEAN, rm_ok \in BOOLEAN, again \in BOOLEAN,
          net \in BOOLEAN, newer \in BOOLEAN :
          /\ local_exists[r]
          /\ IF ~yes
             THEN /\ UNCHANGED <<disk, remote_ahead, local_exists, need_update, ops>>
                  /\ Returns("reclone_single", "no")
             ELSE IF PathExists(disk[r]) /\ ~rm_ok
             THEN /\ UNCHANGED <<disk, remote_ahead, local_exists, need_update, ops>>
                  /\ Returns("reclone_single", "error")
             ELSE IF ~PathExists(disk[r]) /\ ~again
             THEN /\ UNCHANGED <<disk, remote_ahead, local_exists, need_update, ops>>
                  /\ Returns("reclone_single", "no")
             ELSE LET removed == PathExists(disk[r])
                      out == sync_single_repository(r, "clone", "absent", net)
                  IN /\ disk' = [disk EXCEPT ![r] = out.disk]
                     /\ remote_ahead' = [remote_ahead EXCEPT ![r] = out.ahead]
                     /\ ops' = <<Op(r, "clone", "absent", net, out.ok)>>
                     /\ local_exists' =
                          [local_exists EXCEPT ![r] =
                             IF out.ok THEN TRUE ELSE IF removed THEN FALSE ELSE @]
                     /\ need_update' = IF out.ok
                                       THEN [need_update EXCEPT ![r] =
                                               check_repository_needs_update(
                                                   ssh_url[r], out.disk, newer, FALSE)]
                                       ELSE need_update
                     /\ Returns("reclone_single", "yes")
    /\ UNCHANGED auxVars

\* Offered when local_exists.  rm_ok: shutil.rmtree returns; it raises when
\* the directory is not there.
_delete_single_repository ==
    /\ AtMenu
    /\ \E r \in Repos, yes \in BOOLEAN, rm_ok \in BOOLEAN :
          /\ local_exists[r]
          /\ UNCHANGED <<remote_ahead, ops>>
          /\ IF ~yes
             THEN /\ UNCHANGED <<disk, local_exists, need_update>>
                  /\ Returns("delete_single", "no")
             ELSE IF PathExists(disk[r]) /\ rm_ok
             THEN /\ disk' = [disk EXCEPT ![r] = "absent"]
                  /\ local_exists' = [local_exists EXCEPT ![r] = FALSE]
                  /\ need_update' = [need_update EXCEPT ![r] = TRUE]
                  /\ Returns("delete_single", "yes")
             ELSE /\ UNCHANGED <<disk, local_exists, need_update>>
                  /\ Returns("delete_single", "error")
    /\ UNCHANGED auxVars

\* ---------------------------------------------- check_repository_health
\* A probe that raises is taken for a success.
health_class_lenient(d, timeout) ==
    IF ~PathExists(d) THEN "missing"
    ELSE IF d = "nogit" THEN "broken"
    ELSE IF rev_parse(d, timeout) = "nonzero" THEN "broken"
    ELSE "healthy"

\* The class the health check puts a record's directory in.
health_class(d, timeout) ==
    IF ~PathExists(d) THEN "missing"
    ELSE IF d = "nogit" THEN "broken"
    ELSE IF rev_parse(d, timeout) = "ok" THEN "healthy"
    ELSE "broken"

\* The three counts the health check reports; slow: the probes that time out.
health_counts(slow) ==
    LET count(c) == Cardinality({r \in Repos : health_class(disk[r], r \in slow) = c})
    IN [healthy |-> count("healthy"), broken |-> count("broken"),
        missing |-> count("missing"), total |-> Len(ssh_url)]

check_repository_health ==
    /\ AtMenu
    /\ IF Len(ssh_url) = 0
       THEN ReturnEarly("health_check", "not loaded")
       ELSE \E slow \in SUBSET {r \in Repos : disk[r] = "healthy"} :
              /\ stats' = health_counts(slow)
              /\ answer' = "yes"
              /\ cmds' = cmds + 1
              /\ mode' = "health_check"
              /\ pc' = "return"
              /\ prev_run' = "other"
              /\ UNCHANGED <<repoVars, repo_list, idx, results, progress, broken_repos,
                             ops, outVars, follows_clean, dlVars>>
    /\ UNCHANGED auxVars

\* ------------------------------------------------------- StorageManager
\* The records listed for deletion: those whose directory exists.
local_repos == FilterSeq(AllRepos, {r \in Repos : PathExists(disk[r])})

delete_local_repository ==
    /\ AtMenu
    /\ UNCHANGED <<remote_ahead, ops>>
    /\ IF local_repos = <<>>
       THEN /\ UNCHANGED <<disk, local_exists, need_update>>
            /\ Returns("delete_local", "nothing to do")
       ELSE \E choice \in 0..Len(local_repos), yes \in BOOLEAN, rm_ok \in BOOLEAN :
              IF choice = 0 \/ ~yes
              THEN /\ UNCHANGED <<disk, local_exists, need_update>>
                   /\ Returns("delete_local", "no")
              ELSE IF rm_ok
              THEN LET r == local_repos[choice]
                   IN /\ disk' = [disk EXCEPT ![r] = "absent"]
                      /\ local_exists' = [local_exists EXCEPT ![r] = FALSE]
                      /\ need_update' = [need_update EXCEPT ![r] = TRUE]
                      /\ Returns("delete_local", "yes")
              ELSE /\ UNCHANGED <<disk, local_exists, need_update>>
                   /\ Returns("delete_local", "error")
    /\ UNCHANGED auxVars

\* confirm: 'DELETE-ALL' was typed.  kept: the directories that
\* shutil.rmtree(item, ignore_errors=True) could not remove.
delete_all_repositories ==
    /\ AtMenu
    /\ UNCHANGED <<remote_ahead, ops>>
    /\ IF local_repos = <<>>
       THEN /\ UNCHANGED <<disk, local_exists, need_update>>
            /\ Returns("delete_all", "nothing to do")
       ELSE \E confirm \in BOOLEAN :
              IF ~confirm
              THEN /\ UNCHANGED <<disk, local_exists, need_update>>
                   /\ Returns("delete_all", "no")
              ELSE \E kept \in SUBSET {r \in Repos : PathExists(disk[r])} :
                     /\ disk' = [r \in Repos |->
                                   IF r \in kept THEN disk[r] ELSE "absent"]
                     /\ local_exists' = [r \in Repos |-> FALSE]
                     /\ need_update' = [r \in Repos |-> TRUE]
                     /\ Returns("delete_all", "yes")
    /\ UNCHANGED auxVars

\* -------------------------------------------- download_all_repositories
download_stats(n) ==
    [downloaded |-> 0, failed |-> 0, skipped |-> 0, total |-> n, successful |-> 0]

\* A pool sized cpu_count - 1 without the floor of one worker.
MaxOfSecond(a, b) == b

MaxOf(a, b) == IF a >= b THEN a ELSE b

Finished(f) == f \in {"ok", "fail", "stopped", "nourl", "cancelled"}

\* The unit occupies a pool thread: it is downloading, or it is inside a
\* download that never returns ("hung").
Busy(f) == f \in {"running", "hung"}

\* Up to the with block: the guard, the prompt, the reset of the stop flag,
\* the fresh stats, and the submission of one unit per record.
download_all_repositories_start ==
    /\ AtMenu
    /\ IF Len(ssh_url) = 0
       THEN ReturnEarly("download_all", "not loaded")
       ELSE \E yes \in BOOLEAN, cpu_count \in 0..MaxCpu :
              IF ~yes
              THEN ReturnEarly("download_all", "no")
              ELSE /\ answer' = "yes"
                   /\ cmds' = cmds + 1
                   /\ prev_run' = "other"
                   /\ mode' = "download_all"
                   /\ pc' = "as_completed"
                   /\ _stop_download' = FALSE
                   /\ stats' = download_stats(Len(AllRepos))
                   /\ results' = <<>>
                   /\ progress' = <<>>
                   /\ completed' = 0
                   /\ repo_workers' = MaxOf(1, cpu_count - 1)
                   /\ fut' = [r \in Repos |-> "pending"]
                   /\ yielded' = {}
                   /\ UNCHANGED <<repoVars, repo_list, idx, broken_repos, ops,
                                  outVars, follows_clean, html_url, running,
                                  interrupted>>
    /\ UNCHANGED auxVars

DownloadFrame == UNCHANGED <<repoVars, repo_list, idx, broken_repos, ops, answer,
                             cmds, histVars, html_url, repo_workers>>

\* A pool thread takes the next queued unit and enters download_single_repo:
\* the unit returns at once when the stop flag is set or the record has no
\* html_url, and is downloading otherwise.
download_single_repo_begin ==
    /\ mode = "download_all"
    /\ Cardinality({r \in DOMAIN fut : Busy(fut[r])}) < repo_workers
    /\ \E r \in DOMAIN fut :
          /\ fut[r] = "pending"
          /\ \A q \in DOMAIN fut : fut[q] = "pending" => r <= q
          /\ fut' = [fut EXCEPT ![r] =
                       IF _stop_download THEN "stopped"
                       ELSE IF ~html_url[r] THEN "nourl"
                       ELSE "running"]
    /\ UNCHANGED <<mode, pc, stats, results, progress, yielded, completed, outVars,
                   running, _stop_download, interrupted>>
    /\ DownloadFrame
    /\ UNCHANGED auxVars

\* download_repository_with_all_branches returns or raises.
download_single_repo_end ==
    /\ mode = "download_all"
    /\ \E r \in DOMAIN fut, success \in BOOLEAN :
          /\ fut[r] = "running"
          /\ fut' = [fut EXCEPT ![r] = IF success THEN "ok" ELSE "fail"]
    /\ UNCHANGED <<mode, pc, stats, results, progress, yielded, completed, outVars,
                   running, _stop_download, interrupted>>
    /\ DownloadFrame
    /\ UNCHANGED auxVars

\* A fold that forgets the successful counter.
download_fold_lossy(s, kind) ==
    IF kind = "ok" THEN Bump(s, "downloaded") ELSE Bump(s, "failed")

\* One iteration of `for future in as_completed(future_to_repo)`.
download_fold(s, kind) ==
    IF kind = "ok"
    THEN Bump(Bump(s, "downloaded"), "successful")
    ELSE Bump(s, "failed")

download_all_repositories_loop ==
    /\ mode = "download_all" /\ pc = "as_completed"
    /\ \E r \in DOMAIN fut :
          /\ Finished(fut[r]) /\ r \notin yielded
          /\ yielded' = yielded \cup {r}
          /\ IF _stop_download
             THEN /\ fut' = [q \in DOMAIN fut |->
                               IF fut[q] = "pending" THEN "cancelled" ELSE fut[q]]
                  /\ pc' = "shutdown"
                  /\ UNCHANGED <<stats, results, progress, completed>>
             ELSE /\ completed' = completed + 1
                  /\ progress' = Append(progress,
                         progress_report(completed + 1, Len(ssh_url),
                                         Len(results) + 1))
                  /\ results' = Append(results,
                         [repo |-> r, success |-> fut[r] = "ok",
                          skipped |-> fut[r] \in {"stopped", "nourl"}])
                  /\ stats' = download_fold(stats, fut[r])
                  /\ UNCHANGED <<fut, pc>>
    /\ UNCHANGED <<mode, outVars, running, _stop_download, interrupted>>
    /\ DownloadFrame
    /\ UNCHANGED auxVars

\* as_completed is exhausted: the for loop ends.
download_all_repositories_loop_end ==
    /\ mode = "download_all" /\ pc = "as_completed"
    /\ yielded = DOMAIN fut
    /\ pc' = "shutdown"
    /\ UNCHANGED <<mode, stats, results, progress, fut, yielded, completed, outVars,
                   running, _stop_download, interrupted>>
    /\ DownloadFrame
    /\ UNCHANGED auxVars

\* The with block ends: executor.shutdown(wait=True) returns when no unit
\* is queued or running any more.
executor_shutdown ==
    /\ mode = "download_all" /\ pc \in {"shutdown", "unwinding"}
    /\ \A r \in DOMAIN fut : Finished(fut[r])
    /\ IF pc = "shutdown"
       THEN pc' = "summary" /\ mode' = mode
       ELSE pc' = "exited" /\ mode' = "terminated"
    /\ UNCHANGED <<stats, results, progress, fut, yielded, completed, outVars,
                   running, _stop_download, interrupted>>
    /\ DownloadFrame
    /\ UNCHANGED auxVars

\* _show_download_summary(stats)
_show_download_summary ==
    /\ mode = "download_all" /\ pc = "summary"
    /\ pc' = "log"
    /\ summaries' = summaries + 1
    /\ UNCHANGED <<mode, stats, results, progress, fut, yielded, completed, logs,
                   running, _stop_download, interrupted>>
    /\ DownloadFrame
    /\ UNCHANGED auxVars

\* _save_sync_log("Download All Repositories", stats)
download_save_sync_log ==
    /\ mode = "download_all" /\ pc = "log"
    /\ \E write_ok \in BOOLEAN, sec \in LogSeconds :
          IF write_ok
          THEN logs' = Append(logs, LogFileName(mode, sec)) /\ pc' = "return"
          ELSE logs' = logs /\ pc' = "log_failed"
    /\ UNCHANGED <<mode, stats, results, progress, fut, yielded, completed, summaries,
                   running, _stop_download, interrupted>>
    /\ DownloadFrame
    /\ UNCHANGED auxVars

\* SmartGitCLI._signal_handler on SIGINT while download-all is inside its
\* with block: running is cleared and sys.exit(0) raises SystemExit in the
\* main thread, which leaves the loop through the with block's exit.
_signal_handler ==
    /\ mode = "download_all" /\ pc \in {"as_completed", "shutdown"}
    /\ running' = FALSE
    /\ interrupted' = TRUE
    /\ pc' = "unwinding"
    /\ UNCHANGED <<mode, stats, results, progress, fut, yielded, completed, outVars,
                   _stop_download>>
    /\ DownloadFrame
    /\ UNCHANGED auxVars

\* ------------------------------------------------------ needs-update count
\* What a call of sync_service.check_repository_needs_update does: it
\* answers that an update is needed ("yes") or not ("no"), or it raises.
Verdicts == {"yes", "no", "raises"}

\* SmartGitCLI._get_repository_needs_update(repo), a user being loaded.
_get_repository_needs_update(v) ==
    IF v = "raises" THEN FALSE ELSE v = "yes"

\* SmartGitCLI._calculate_needs_update_count over the records in list;
\* verdict[r] is what the call does for record r.  ok: the function returns
\* value; it raises otherwise.
RECURSIVE CountNeedsUpdate(_, _)
CountNeedsUpdate(list, verdict) ==
    IF list = <<>> THEN [ok |-> TRUE, value |-> 0]
    ELSE IF ~ssh_url[Head(list)] THEN CountNeedsUpdate(Tail(list), verdict)
    ELSE IF verdict[Head(list)] = "raises" THEN [ok |-> FALSE, value |-> 0]
    ELSE LET rest == CountNeedsUpdate(Tail(list), verdict)
         IN IF rest.ok
            THEN [ok |-> TRUE,
                  value |-> (IF verdict[Head(list)] = "yes" THEN 1 ELSE 0)
                            + rest.value]
            ELSE rest

_calculate_needs_update_count(verdict) ==
    IF Len(ssh_url) = 0
    THEN [ok |-> TRUE, value |-> 0]
    ELSE CountNeedsUpdate(AllRepos, verdict)

\* ----------------------------------------------------------- environment
\* Somebody pushes to the remote of a cloned repository.
remote_push ==
    /\ \E r \in Repos :
          /\ mode \in BulkModes \cup {"menu"}
          /\ disk[r] = "healthy" /\ ~remote_ahead[r]
          /\ remote_ahead' = [remote_ahead EXCEPT ![r] = TRUE]
    /\ prev_run' = IF prev_run = "none" THEN "none" ELSE "other"
    /\ follows_clean' = FALSE
    /\ UNCHANGED <<ssh_url, disk, local_exists, need_update, mode, pc, runVars,
                   answer, outVars, cmds, dlVars>>
    /\ UNCHANGED auxVars

\* ------------------------------------------------------------------ Next
GitNext ==
    \/ sync_all_repositories_start
    \/ sync_all_repositories_step
    \/ update_needed_repositories_start
    \/ update_needed_repositories_step
    \/ sync_missing_repositories_start
    \/ sync_missing_repositories_step
    \/ sync_with_repair_start
    \/ sync_with_repair_step
    \/ reclone_all_repos_start
    \/ reclone_all_repos_step
    \/ show_sync_summary
    \/ _save_sync_log
    \/ log_error_propagates
    \/ wait_for_enter
    \/ _update_single_repository
    \/ _clone_single_repository
    \/ _reclone_single_repository
    \/ _delete_single_repository
    \/ delete_local_repository
    \/ delete_all_repositories
    \/ check_repository_health
    \/ remote_push

DownloadNext ==
    \/ download_all_repositories_start
    \/ download_single_repo_begin
    \/ download_single_repo_end
    \/ download_all_repositories_loop
    \/ download_all_repositories_loop_end
    \/ executor_shutdown
    \/ _show_download_summary
    \/ download_save_sync_log
    \/ _signal_handler

Next == GitNext \/ DownloadNext

\* The whole session: git modes, single actions, deletes and download-all.
Spec == Init /\ [][Next]_vars

\* ------------------------------------------ download-all with a stop signal
\* The session for the download path alone: every record has an ssh_url and
\* no clone; the records differ in whether they carry an html_url.
InitDownload ==
    /\ \E n \in 0..MaxRepos :
          /\ html_url \in [1..n -> BOOLEAN]
          /\ ssh_url = [r \in 1..n |-> TRUE]
          /\ disk = [r \in 1..n |-> "absent"]
          /\ remote_ahead = [r \in 1..n |-> FALSE]
          /\ need_update = [r \in 1..n |-> TRUE]
          /\ local_exists = [r \in 1..n |-> FALSE]
    /\ mode = "menu"
    /\ pc = "menu"
    /\ repo_list = <<>>
    /\ idx = 0
    /\ stats = [total |-> 0]
    /\ results = <<>>
    /\ progress = <<>>
    /\ broken_repos = {}
    /\ ops = <<>>
    /\ answer = "none"
    /\ summaries = 0
    /\ logs = <<>>
    /\ cmds = 0
    /\ prev_run = "none"
    /\ follows_clean = FALSE
    /\ DownloadIdle
    /\ AuxIdle

\* The stop signal of the download path: the stop flag is raised after the
\* units were submitted and before any of them has started.
stop_signal ==
    /\ mode = "download_all" /\ pc = "as_completed"
    /\ ~_stop_download
    /\ \A r \in DOMAIN fut : fut[r] = "pending"
    /\ _stop_download' = TRUE
    /\ UNCHANGED <<mode, pc, stats, results, progress, fut, yielded, completed, outVars,
                   running, interrupted>>
    /\ DownloadFrame
    /\ UNCHANGED auxVars

StopNext ==
    \/ DownloadNext
    \/ wait_for_enter
    \/ stop_signal

SpecStopSignal == InitDownload /\ [][StopNext]_vars

\* ------------------------------------- download-all with a hanging download
\* download_repository_with_all_branches does not return for a unit that is
\* downloading, and never will.
download_hangs ==
    /\ mode = "download_all"
    /\ \E r \in DOMAIN fut :
          /\ fut[r] = "running"
          /\ fut' = [fut EXCEPT ![r] = "hung"]
    /\ UNCHANGED <<mode, pc, stats, results, progress, yielded, completed, outVars,
                   running, _stop_download, interrupted>>
    /\ DownloadFrame
    /\ UNCHANGED auxVars

\* What the pool threads and the main thread of download-all can do next,
\* interrupts aside.
DownloadProgress ==
    \/ download_single_repo_begin
    \/ download_single_repo_end
    \/ download_all_repositories_loop
    \/ download_all_repositories_loop_end
    \/ executor_shutdown
    \/ _show_download_summary
    \/ download_save_sync_log

HangNext ==
    \/ DownloadNext
    \/ wait_for_enter
    \/ download_hangs

SpecHang == InitDownload /\ [][HangNext]_vars

\* ------------------------------------------- repair on three repositories
\* Record 1 has no local clone, record 2 a healthy clone level with its
\* remote, record 3 a directory without .git; all three have an ssh_url.
InitRepairScenario ==
    /\ ssh_url = <<TRUE, TRUE, TRUE>>
    /\ disk = <<"absent", "healthy", "nogit">>
    /\ remote_ahead = <<FALSE, FALSE, FALSE>>
    /\ need_update \in [DOMAIN disk -> BOOLEAN]
    /\ local_exists = [r \in DOMAIN disk |-> HasClone(disk[r])]
    /\ html_url = [r \in DOMAIN disk |-> TRUE]
    /\ mode = "menu"
    /\ pc = "menu"
    /\ repo_list = <<>>
    /\ idx = 0
    /\ stats = [total |-> 0]
    /\ results = <<>>
    /\ progress = <<>>
    /\ broken_repos = {}
    /\ ops = <<>>
    /\ answer = "none"
    /\ summaries = 0
    /\ logs = <<>>
    /\ cmds = 0
    /\ prev_run = "none"
    /\ follows_clean = FALSE
    /\ DownloadIdle
    /\ AuxIdle

RepairNext ==
    \/ sync_with_repair_start
    \/ sync_with_repair_step
    \/ show_sync_summary
    \/ _save_sync_log
    \/ wait_for_enter

SpecRepairScenario == InitRepairScenario /\ [][RepairNext]_vars

\* ------------------------------------------------- _run_step_with_retry
\* The session before the checkup has loaded anything: no repositories, no
\* handler started.
EngineIdle ==
    /\ ssh_url = <<>> /\ disk = <<>> /\ remote_ahead = <<>>
    /\ need_update = <<>> /\ local_exists = <<>> /\ html_url = <<>>
    /\ mode = "menu"
    /\ pc = "menu"
    /\ repo_list = <<>>
    /\ idx = 0
    /\ stats = [total |-> 0]
    /\ results = <<>>
    /\ progress = <<>>
    /\ broken_repos = {}
    /\ ops = <<>>
    /\ answer = "none"
    /\ summaries = 0
    /\ logs = <<>>
    /\ cmds = 0
    /\ prev_run = "none"
    /\ follows_clean = FALSE
    /\ DownloadIdle

engineVars == <<repoVars, mode, pc, runVars, answer, outVars, cmds, histVars,
                dlVars>>

\* The step names run_full_checkup passes (two of the seven).
StepNames == {"structure", "network"}

\* What one call of step_func does: it returns a true or a false value, or
\* it raises an Exception.
StepOutcomes == {"true", "false", "raises"}

\* A test that lets one more attempt through.
may_retry_once_more(count, limit) == count <= limit + 1

\* `retry_count <= max_retries`: the while test, and the test after a
\* failed attempt.
may_retry(count, limit) == count <= limit

\* Entry: max_retries is the argument, or _max_retries when it is None;
\* retry_count = 0 and _retry_counts[step_name] = 0.
_run_step_with_retry_begin ==
    /\ retry_pc \in {"idle", "returned"}
    /\ retry_runs < MaxCmds
    /\ \E name \in StepNames, limit \in -1..MaxRetries :
          /\ step_name' = name
          /\ max_retries' = limit
          /\ _retry_counts' =
                [n \in DOMAIN _retry_counts \cup {name} |->
                    IF n = name THEN 0 ELSE _retry_counts[n]]
    /\ retry_count' = 0
    /\ step_calls' = <<>>
    /\ retry_pc' = "loop"
    /\ retry_runs' = retry_runs + 1
    /\ UNCHANGED <<engineVars, cleanVars, promptVars, menuVars, retry_result>>

\* One pass through the body of the while loop.
_run_step_with_retry_attempt ==
    /\ retry_pc = "loop"
    /\ may_retry(retry_count, max_retries)
    /\ \E outcome \in StepOutcomes :
          /\ step_calls' = Append(step_calls, outcome)
          /\ IF outcome = "true"
             THEN /\ retry_pc' = "returned"
                  /\ retry_result' = TRUE
                  /\ UNCHANGED <<retry_count, _retry_counts>>
             ELSE /\ retry_count' = retry_count + 1
                  /\ _retry_counts' = [_retry_counts EXCEPT ![step_name] = @ + 1]
                  /\ IF may_retry(retry_count + 1, max_retries)
                     THEN UNCHANGED <<retry_pc, retry_result>>
                     ELSE retry_pc' = "returned" /\ retry_result' = FALSE
    /\ UNCHANGED <<engineVars, cleanVars, promptVars, menuVars, max_retries, step_name, retry_runs>>

\* The while test fails: the `return False` after the loop.
_run_step_with_retry_exhausted ==
    /\ retry_pc = "loop"
    /\ ~may_retry(retry_count, max_retries)
    /\ retry_pc' = "returned"
    /\ retry_result' = FALSE
    /\ UNCHANGED <<engineVars, cleanVars, promptVars, menuVars, max_retries, retry_count, _retry_counts,
                   step_name, step_calls, retry_runs>>

RetryNext ==
    \/ _run_step_with_retry_begin
    \/ _run_step_with_retry_attempt
    \/ _run_step_with_retry_exhausted

InitRetry == EngineIdle /\ AuxIdle

SpecRetry == InitRetry /\ [][RetryNext]_vars

\* ------------------------------------------------------- get_menu_choice
\* The lines the terminal can deliver to input(); "eof" stands for the end
\* of input (EOFError).
Lines == {"", " ", "abc", "-1", "0", "1", " 2", "3", "4", "5", "6", "7", "8",
          "eof"}

\* str.strip()
strip(line) ==
    CASE line = " " -> ""
      [] line = " 2" -> "2"
      [] OTHER -> line

\* int(choice_str): the number, or a ValueError (ok false) for a string
\* that is none.
Numerals == {"-1", "0", "1", "2", "3", "4", "5", "6", "7", "8"}

int(str) ==
    [ok |-> str \in Numerals,
     value |-> CASE str = "-1" -> -1
                 [] str = "0" -> 0
                 [] str = "1" -> 1
                 [] str = "2" -> 2
                 [] str = "3" -> 3
                 [] str = "4" -> 4
                 [] str = "5" -> 5
                 [] str = "6" -> 6
                 [] str = "7" -> 7
                 [] str = "8" -> 8
                 [] OTHER -> 0]

\* One pass of the `while True` of get_menu_choice on the line read: the
\* loop prompts again (returns false), or the function returns value.
get_menu_choice(line, lo, hi) ==
    IF line = "eof" THEN [returns |-> TRUE, value |-> 0]
    ELSE LET choice_str == strip(line)
             number == int(choice_str)
         IN IF choice_str = "" \/ ~number.ok
            THEN [returns |-> FALSE, value |-> 0]
            ELSE [returns |-> lo <= number.value /\ number.value <= hi,
                  value |-> number.value]

\* list(config.users.keys())[i]: the position, counted from 1, that the
\* Python index i selects in a list of n entries.
list_index(n, i) == IF i >= 0 THEN i + 1 ELSE n + i + 1

\* The handler site calls get_menu_choice(prompt, lo, hi).
OpenPrompt(site, lo, hi) ==
    /\ prompt_pc = "idle"
    /\ entries < MaxEntries
    /\ prompt_site' = site
    /\ min_choice' = lo
    /\ max_choice' = hi
    /\ prompt_pc' = "input"
    /\ picked' = "none"
    /\ UNCHANGED <<engineVars, cleanVars, retryVars, menuVars, users, active_user, menu_choice, entries>>

\* set_user_step with saved users: "Select action" over the users and the
\* four commands after them.
set_user_step ==
    /\ users > 0
    /\ OpenPrompt("set_user_step", 1, users + 4)

\* delete_user_step with saved users: "Select user", Cancel after them.
delete_user_step ==
    /\ users > 0
    /\ OpenPrompt("delete_user_step", 1, users + 1)

\* ssh_generate_key: "Select key type" out of four.
ssh_generate_key ==
    /\ prompt_pc = "idle"
    /\ OpenPrompt("ssh_generate_key", 1, 4)

\* input() delivers a line to the open prompt.
get_menu_choice_input ==
    /\ prompt_pc = "input"
    /\ entries < MaxEntries
    /\ entries' = entries + 1
    /\ \E line \in Lines :
          LET got == get_menu_choice(line, min_choice, max_choice)
          IN IF got.returns
             THEN menu_choice' = got.value /\ prompt_pc' = "returned"
             ELSE UNCHANGED <<menu_choice, prompt_pc>>
    /\ UNCHANGED <<engineVars, cleanVars, retryVars, menuVars, users, active_user, prompt_site,
                   min_choice, max_choice, picked>>

PromptFrame ==
    /\ prompt_pc' = "idle"
    /\ UNCHANGED <<engineVars, cleanVars, retryVars, menuVars, prompt_site, min_choice, max_choice,
                   menu_choice, entries>>

\* set_user_step after the prompt.
set_user_step_choice ==
    /\ prompt_pc = "returned" /\ prompt_site = "set_user_step"
    /\ IF menu_choice <= users
       THEN /\ active_user' = list_index(users, menu_choice - 1)
            /\ picked' = "user selected"
       ELSE /\ active_user' = active_user
            /\ picked' = CASE menu_choice = users + 1 -> "add user"
                            [] menu_choice = users + 2 -> "delete user"
                            [] menu_choice = users + 4 -> "exit"
                            [] OTHER -> "continue"
    /\ users' = users
    /\ PromptFrame

\* delete_user_step after the prompt; yes: the answer to "Delete user?".
delete_user_step_choice ==
    /\ prompt_pc = "returned" /\ prompt_site = "delete_user_step"
    /\ IF menu_choice <= users
       THEN \E yes \in BOOLEAN :
              LET k == list_index(users, menu_choice - 1)
              IN IF yes
                 THEN /\ users' = users - 1
                      /\ active_user' = IF active_user = k THEN 0
                                         ELSE IF active_user > k
                                              THEN active_user - 1
                                              ELSE active_user
                      /\ picked' = "user deleted"
                 ELSE /\ UNCHANGED <<users, active_user>>
                      /\ picked' = "user offered"
       ELSE /\ UNCHANGED <<users, active_user>>
            /\ picked' = "cancel"
    /\ PromptFrame

\* ssh_generate_key after the prompt: key_type_map[key_type_choice].
ssh_generate_key_choice ==
    /\ prompt_pc = "returned" /\ prompt_site = "ssh_generate_key"
    /\ picked' = IF menu_choice \in 1..4 THEN "key type" ELSE "KeyError"
    /\ UNCHANGED <<users, active_user>>
    /\ PromptFrame

PromptNext ==
    \/ set_user_step
    \/ delete_user_step
    \/ ssh_generate_key
    \/ get_menu_choice_input
    \/ set_user_step_choice
    \/ delete_user_step_choice
    \/ ssh_generate_key_choice

\* The checkup is at its user step: some users are saved, one of them may
\* be the active one.
InitPrompt ==
    /\ EngineIdle
    /\ RetryIdle
    /\ MenuIdle
    /\ CleanIdle
    /\ users \in 0..MaxUsers
    /\ active_user \in 0..users
    /\ prompt_site = "none"
    /\ min_choice = 0
    /\ max_choice = 0
    /\ menu_choice = 0
    /\ prompt_pc = "idle"
    /\ picked = "none"
    /\ entries = 0

SpecPrompt == InitPrompt /\ [][PromptNext]_vars

\* ------------------------------------------------------------ the menus
\* The submenus and the upper end of the range each one prompts for.
Submenus == {"repositories", "sync", "ssh", "storage"}

SubmenuMax(menu) ==
    CASE menu = "repositories" -> 6
      [] menu = "sync" -> 7
      [] menu = "ssh" -> 8
      [] menu = "storage" -> 3

\* A submenu that enters without saving the menu it came from.
menu_push_none(stack, menu) == stack

\* cli.menu_stack.append(cli.current_menu)
menu_push(stack, menu) == Append(stack, menu)

Top == frames[Len(frames)]

Frame(menu) ==
    [menu |-> menu, entry_menu |-> current_menu, entry_len |-> Len(menu_stack)]

\* An exception, or the end of the outermost menu loop, ends every menu
\* loop on the call stack: run_full_checkup returns, and after a Restart
\* the menu loop that called it breaks.
MenusEnd == frames' = <<>>

\* The checkup has loaded a user and repositories and calls show_main_menu.
run_full_checkup ==
    /\ frames = <<>> /\ entries = 0
    /\ current_menu' = "main"
    /\ frames' = <<Frame("main")>>
    /\ UNCHANGED <<engineVars, cleanVars, retryVars, promptVars, menu_stack, pop_error,
                   backs>>

\* One pass of the loop of show_main_menu: the prompt and the dispatch.
\* Choosing a submenu runs the first two statements of its show function;
\* Restart runs the checkup again, which calls show_main_menu (ok) or
\* returns early, and breaks afterwards.
show_main_menu ==
    /\ frames # <<>> /\ Top.menu = "main"
    /\ running
    /\ entries < MaxMenuEntries
    /\ \E line \in Lines, ok \in BOOLEAN :
          LET got == get_menu_choice(line, 0, 11)
              sub == CASE got.value = 3 -> "repositories"
                       [] got.value = 4 -> "sync"
                       [] got.value = 5 -> "ssh"
                       [] got.value = 6 -> "storage"
                       [] OTHER -> "none"
          IN IF ~got.returns
             THEN UNCHANGED <<current_menu, menu_stack, frames>>
             ELSE IF got.value = 0
             THEN MenusEnd /\ UNCHANGED <<current_menu, menu_stack>>
             ELSE IF sub # "none"
             THEN /\ menu_stack' = menu_push(menu_stack, current_menu)
                  /\ current_menu' = sub
                  /\ frames' = Append(frames, Frame(sub))
             ELSE IF got.value = 8
             THEN IF ok
                  THEN /\ current_menu' = "main"
                       /\ frames' = Append(frames, Frame("main"))
                       /\ UNCHANGED menu_stack
                  ELSE MenusEnd /\ UNCHANGED <<current_menu, menu_stack>>
             ELSE UNCHANGED <<current_menu, menu_stack, frames>>
    /\ entries' = entries + 1
    /\ UNCHANGED <<engineVars, cleanVars, retryVars, users, active_user, prompt_site,
                   min_choice, max_choice, menu_choice, prompt_pc, picked,
                   pop_error, backs>>

\* One pass of the loop of a submenu (show_repository_menu, show_sync_menu,
\* show_ssh_menu, show_storage_menu): the prompt, then Back or a command;
\* raises: the command's handler raises.
show_submenu ==
    /\ frames # <<>> /\ Top.menu \in Submenus
    /\ entries < MaxMenuEntries
    /\ \E line \in Lines, raises \in BOOLEAN :
          LET got == get_menu_choice(line, 0, SubmenuMax(Top.menu))
          IN IF ~got.returns
             THEN UNCHANGED <<current_menu, menu_stack, frames, pop_error, backs>>
             ELSE IF got.value = 0
             THEN /\ backs' = backs + 1
                  /\ IF menu_stack = <<>>
                     THEN /\ pop_error' = TRUE
                          /\ MenusEnd
                          /\ UNCHANGED <<current_menu, menu_stack>>
                     ELSE /\ current_menu' = menu_stack[Len(menu_stack)]
                          /\ menu_stack' = SubSeq(menu_stack, 1, Len(menu_stack) - 1)
                          /\ frames' = IF menu_stack[Len(menu_stack)] = Top.menu
                                        THEN frames
                                        ELSE SubSeq(frames, 1, Len(frames) - 1)
                          /\ UNCHANGED pop_error
             ELSE /\ IF raises THEN MenusEnd ELSE UNCHANGED frames
                  /\ UNCHANGED <<current_menu, menu_stack, pop_error, backs>>
    /\ entries' = entries + 1
    /\ UNCHANGED <<engineVars, cleanVars, retryVars, users, active_user, prompt_site,
                   min_choice, max_choice, menu_choice, prompt_pc, picked>>

MenuNext ==
    \/ run_full_checkup
    \/ show_main_menu
    \/ show_submenu

InitMenu == EngineIdle /\ AuxIdle

SpecMenu == InitMenu /\ [][MenuNext]_vars

\* ------------------------------------------------------ clean_log_files
\* sum(f['size'] for f in list)
RECURSIVE SumSizes(_)
SumSizes(list) ==
    IF list = <<>> THEN 0 ELSE Head(list) + SumSizes(Tail(list))

\* The prompt "Clean ALL n log files and directories?" for a non-empty
\* listing.
clean_log_files_start ==
    /\ clean_pc = "idle"
    /\ files # <<>>
    /\ \E yes \in BOOLEAN :
          clean_pc' = IF yes THEN "loop" ELSE "returned"
    /\ clean_i' = 0
    /\ removed_items' = {}
    /\ removed_count' = 0
    /\ UNCHANGED <<engineVars, retryVars, promptVars, menuVars, files,
                   cleaned_size>>

\* One iteration of the removal loop; rm_ok: shutil.rmtree or unlink
\* returns, it raises otherwise and the item stays.
clean_log_files_item ==
    /\ clean_pc = "loop"
    /\ clean_i < Len(files)
    /\ clean_i' = clean_i + 1
    /\ \E rm_ok \in BOOLEAN :
          IF rm_ok
          THEN /\ removed_items' = removed_items \cup {clean_i + 1}
               /\ removed_count' = removed_count + 1
          ELSE UNCHANGED <<removed_items, removed_count>>
    /\ UNCHANGED <<engineVars, retryVars, promptVars, menuVars, files,
                   cleaned_size, clean_pc>>

\* After the loop: with removed_count > 0 the count and the freed size are
\* reported, the size as the sum over files[:removed_count].
clean_log_files_report ==
    /\ clean_pc = "loop"
    /\ clean_i = Len(files)
    /\ IF removed_count > 0
       THEN /\ cleaned_size' = SumSizes(SubSeq(files, 1, removed_count))
            /\ clean_pc' = "reported"
       ELSE /\ cleaned_size' = cleaned_size
            /\ clean_pc' = "returned"
    /\ UNCHANGED <<engineVars, retryVars, promptVars, menuVars, files, clean_i,
                   removed_items, removed_count>>

CleanNext ==
    \/ clean_log_files_start
    \/ clean_log_files_item
    \/ clean_log_files_report

\* clean_log_files has listed the items of the log directories.
InitClean ==
    /\ EngineIdle
    /\ RetryIdle /\ PromptIdle /\ MenuIdle
    /\ \E n \in 1..MaxFiles : files \in [1..n -> 0..MaxSize]
    /\ clean_i = 0
    /\ removed_items = {}
    /\ removed_count = 0
    /\ cleaned_size = 0
    /\ clean_pc = "idle"

SpecClean == InitClean /\ [][CleanNext]_vars

\* ---------------------------------------------------------------- claims
\* A bulk git run has rendered its summary.
RunEnded == mode \in BulkModes /\ pc \in {"log", "return"} /\ answer = "yes"

StatsAddUp ==
    stats.total = Counter(stats, "successful") + Counter(stats, "failed")
                  + Counter(stats, "skipped")

AllZero ==
    \A k \in DOMAIN stats : stats[k] = 0

C2_NoPullWithoutClone ==
    /\ mode = "sync_missing" /\ pc = "loop" /\ idx = 0 =>
          \A r \in Repos :
             (ssh_url[r] /\ ~HasClone(disk[r]))
                <=> (\E i \in DOMAIN repo_list : repo_list[i] = r)
    /\ \A i \in DOMAIN ops : ops[i].action = "pull" => ops[i].clone

\* C3: a sync-all that directly follows a sync-all without failures, with no
\* remote change in between and every network call answering, synchronises
\* and clones nothing: every repository is 'Already up to date' and skipped.
C3_SecondRunSkipsAll ==
    /\ mode = "sync_all" /\ pc = "log" /\ follows_clean
    /\ \A i \in DOMAIN ops : ops[i].net
    => /\ stats.synced = 0
       /\ stats.failed = 0
       /\ stats.skipped = stats.total
       /\ \A i \in DOMAIN results : results[i].message = AlreadyUpToDate

\* C4: after a successful clone, pull, repair or re-clone the record's
\* local_exists flag is true exactly when the clone exists, and need_update
\* is false after a successful pull.
C4_FlagsRefreshed ==
    ops # <<>> /\ ops[Len(ops)].ok /\ ops[Len(ops)].action # "remove" =>
        LET o == ops[Len(ops)]
        IN /\ local_exists[o.repo] = HasClone(disk[o.repo])
           /\ o.action = "pull" => ~need_update[o.repo]

\* C5: in every bulk git mode each outcome goes into exactly one counter: a
\* failure into failed, an 'Already up to date' success into skipped alone,
\* any other success into the mode's action counter and successful; a record
\* passed over for having no ssh_url goes into skipped.
C5_OneCounterPerOutcome ==
    mode \in BulkModes /\ pc \in {"loop", "log"} =>
        LET fails == Cardinality({i \in DOMAIN results : ~results[i].success})
            sentinels == Cardinality({i \in DOMAIN results :
                            results[i].success
                            /\ results[i].message = AlreadyUpToDate})
            others == Cardinality({i \in DOMAIN results :
                            results[i].success
                            /\ results[i].message # AlreadyUpToDate})
            passed == IF mode = "repair"
                      THEN Cardinality({i \in 1..idx : ~ssh_url[repo_list[i]]})
                      ELSE 0
        IN /\ stats.failed = fails
           /\ Counter(stats, "skipped") = sentinels + passed
           /\ stats.successful = others
           /\ Counter(stats, "synced") + Counter(stats, "updated")
                + Counter(stats, "cloned") + Counter(stats, "repaired") = others

\* The records a bulk run issues an operation for.
Selected ==
    IF mode = "repair"
    THEN {r \in Repos : ssh_url[r]}
    ELSE {repo_list[i] : i \in DOMAIN repo_list}

\* C6: a bulk git run goes through its whole selection whatever fails: at
\* its end results holds exactly one entry, and the run has issued exactly
\* one clone, pull or repair, for every selected repository.
C6_OneOperationEach ==
    RunEnded =>
        /\ idx = Len(repo_list)
        /\ Len(results) = Cardinality(Selected)
        /\ \A r \in Selected :
              /\ Cardinality({i \in DOMAIN results : results[i].repo = r}) = 1
              /\ Cardinality({i \in DOMAIN ops :
                                 ops[i].repo = r /\ ops[i].action # "remove"}) = 1

C6_Witness ==
    /\ RunEnded
    /\ Len(results) = 2
    /\ ~results[1].success
    /\ results[2].success

\* C7: a handler whose confirmation prompt is declined has changed nothing:
\* no directory, no record flag, no statistics, no summary, no log file and
\* no download unit.
C7_DeclinedChangesNothing ==
    [][mode = "menu" /\ answer' = "no" =>
          UNCHANGED <<repoVars, runVars, outVars, dlVars>>]_vars

C7_Witness ==
    /\ mode = "reclone_all" /\ pc = "return" /\ answer = "no"
    /\ \E r \in Repos : PathExists(disk[r])

\* C8: clone-missing and update-needed never select, and never operate on,
\* a record without ssh_url, and the needs-update count counts exactly the
\* records with an ssh_url that the decision engine reports.
C8_NoSshUrlNeverSelected ==
    /\ mode \in {"sync_missing", "update_needed"} =>
          /\ \A i \in DOMAIN repo_list : ssh_url[repo_list[i]]
          /\ \A i \in DOMAIN ops : ops[i].ssh
    /\ \A verdict \in [Repos -> {"yes", "no"}] :
          _calculate_needs_update_count(verdict).value
             = Cardinality({r \in Repos : ssh_url[r] /\ verdict[r] = "yes"})

C8_Witness ==
    /\ mode = "sync_missing" /\ pc = "log"
    /\ ops # <<>>
    /\ \E r \in Repos : ~ssh_url[r] /\ ~HasClone(disk[r])

\* C9: an interrupt during download-all sets the stop flag, and the run
\* goes on to its summary and log instead of ending.
C9_InterruptStopsRun ==
    interrupted => _stop_download /\ mode # "terminated"

C11_HungUnitGivenUp ==
    /\ mode = "download_all"
    /\ pc \in {"as_completed", "shutdown"}
    /\ \E r \in DOMAIN fut : fut[r] = "hung"
    => ENABLED DownloadProgress

\* C12: in download-all the units that occupy a pool thread at the same
\* time never number more than max(1, cpu_count - 1), and the pool has at
\* least one worker whatever cpu_count is, 0 and 1 included.
C12_WorkersBounded ==
    /\ Cardinality({r \in DOMAIN fut : Busy(fut[r])}) <= repo_workers
    /\ mode = "download_all" /\ answer = "yes" =>
          /\ repo_workers >= 1
          /\ \E cpu_count \in 0..MaxCpu : repo_workers = MaxOf(1, cpu_count - 1)
    /\ \A cpu_count \in 0..MaxCpu : MaxOf(1, cpu_count - 1) >= 1

C12_Witness ==
    /\ mode = "download_all"
    /\ repo_workers = 1
    /\ Cardinality({r \in DOMAIN fut : fut[r] = "running"}) = 1
    /\ \E r \in DOMAIN fut : fut[r] = "pending"

\* The first handler of the session has rendered its summary, and every
\* service call of the run could reach the remote.
FirstRunEndedOnline ==
    /\ pc = "log" /\ cmds = 1
    /\ \A i \in DOMAIN ops : ops[i].net

\* C13: repair on A (ssh_url, no clone), B (healthy clone, remote
\* unchanged) and C (directory without .git) ends with total = 3,
\* failed = 0, skipped = 1: A is a success in the repaired bucket, B is
\* skipped through 'Already up to date', C is repaired.
C13_RepairScenario ==
    mode = "repair" /\ FirstRunEndedOnline =>
        /\ stats.total = 3 /\ stats.failed = 0 /\ stats.skipped = 1
        /\ stats.repaired = 2 /\ stats.successful = 2 /\ stats.synced = 0
        /\ Len(results) = 3
        /\ results[1].success /\ HasRepairMarker(results[1].message)
        /\ results[2].success /\ results[2].message = AlreadyUpToDate
        /\ results[3].success /\ HasRepairMarker(results[3].message)
        /\ \A r \in Repos : disk[r] = "healthy"

C13_Witness ==
    /\ mode = "repair" /\ FirstRunEndedOnline
    /\ Len(results) = 3
    /\ stats.skipped = 1

\* C14: a probe that times out, or fails in any other way, on a directory
\* that has its .git puts the repository among the broken ones and never
\* among the healthy ones, in the repair pre-scan and in the health check.
C14_FailedProbeIsBroken ==
    /\ \A r \in Repos, timeout \in BOOLEAN :
          HasClone(disk[r]) /\ rev_parse(disk[r], timeout) # "ok" =>
             /\ health_class(disk[r], timeout) = "broken"
             /\ ssh_url[r] => r \in repair_prescan(IF timeout THEN {r} ELSE {})
    /\ mode = "health_check" /\ answer = "yes" =>
          /\ stats.healthy + stats.broken + stats.missing = stats.total
          /\ stats.healthy <= Cardinality({r \in Repos : disk[r] = "healthy"})
          /\ stats.broken >= Cardinality({r \in Repos : disk[r] \in {"nogit", "broken"}})
    /\ mode = "repair" /\ answer = "yes" =>
          \A r \in Repos : ssh_url[r] /\ disk[r] = "broken" => r \in broken_repos

C14_Witness ==
    /\ mode = "health_check" /\ answer = "yes"
    /\ \E r \in Repos : disk[r] = "healthy"
    /\ stats.healthy = 0

\* C15: no two log writes go to the same file: every completed run has a
\* log file of its own, two runs of one operation within one clock second
\* included.
C15_LogFilesDistinct ==
    \A i, j \in DOMAIN logs : i # j => logs[i] # logs[j]

\* C16: when the log write at the end of a bulk run fails, the summary has
\* been presented, and the next thing that happens is the handler's return
\* to its menu with the statistics as they were.
C16_LogFailureContained ==
    [][pc = "log_failed" =>
          /\ summaries > 0
          /\ pc' = "return" /\ mode' = mode
          /\ stats' = stats /\ results' = results]_vars

\* C17: an error raised while the need for an update is decided reads as
\* 'no update needed': the query for one record answers false, and the
\* aggregate count completes and equals the number of records with an
\* ssh_url whose decision is true.
C17_DecisionErrorsSwallowed ==
    \A verdict \in [Repos -> Verdicts] :
       /\ \A r \in Repos :
             _get_repository_needs_update(verdict[r]) = (verdict[r] = "yes")
       /\ _calculate_needs_update_count(verdict).ok
       /\ _calculate_needs_update_count(verdict).value
             = Cardinality({r \in Repos : ssh_url[r] /\ verdict[r] = "yes"})

C19_SyncAllNeedsSshUrl ==
    mode = "sync_all" =>
        \A i \in DOMAIN ops :
           /\ ops[i].ssh
           /\ ops[i].action = (IF ops[i].clone THEN "pull" ELSE "clone")

\* C20: reclone-all handles its records one after the other in list order:
\* for each, the removal of the local copy, then exactly one clone of that
\* record onto the removed path, and only then the next record's removal.
C20_RemoveThenCloneInTurn ==
    mode = "reclone_all" /\ answer = "yes" =>
        /\ Len(ops) = 2 * idx
        /\ \A k \in 1..idx :
              /\ ops[2 * k - 1].action = "remove"
              /\ ops[2 * k - 1].repo = repo_list[k]
              /\ ops[2 * k].action = "clone"
              /\ ops[2 * k].repo = repo_list[k]
              /\ ~ops[2 * k].clone
        /\ \A r \in Repos :
              Cardinality({i \in DOMAIN ops :
                             ops[i].repo = r /\ ops[i].action = "clone"}) <= 1

C20_Witness ==
    /\ mode = "reclone_all" /\ pc = "log"
    /\ Len(ops) = 4
    /\ ops[1].clone
    /\ ~ops[2].ok

\* C21: a sequential bulk mode processes the repositories in the order of
\* the loaded list: results only ever grows in that order, and at the end
\* of the run it is the selected repositories in their order in the list.
C21_ResultsInListOrder ==
    mode \in BulkModes /\ answer = "yes" =>
        LET done == [k \in DOMAIN results |-> results[k].repo]
        IN /\ \A j, k \in DOMAIN done : j < k => done[j] < done[k]
           /\ RunEnded => done = FilterSeq([i \in Repos |-> i], Selected)

C21_Witness ==
    /\ RunEnded
    /\ mode = "update_needed"
    /\ Len(results) = 2
    /\ results[1].repo = 1
    /\ ~results[1].success

\* C22: the health check puts every repository in exactly one of healthy,
\* broken, missing, so the three counts add up to the number of
\* repositories: missing when the directory is absent, broken when it exists
\* without its metadata directory or the probe fails, healthy otherwise; and
\* the repair pre-scan marks as broken exactly the records with an ssh_url
\* that the health check classifies as broken.
C22_HealthPartition ==
    /\ \A slow \in SUBSET Repos :
          LET c == health_counts(slow)
              probe_fails(r) == disk[r] = "broken" \/ r \in slow
          IN /\ c.healthy + c.broken + c.missing = Len(ssh_url)
             /\ c.missing = Cardinality({r \in Repos : disk[r] = "absent"})
             /\ c.broken = Cardinality({r \in Repos :
                                /\ disk[r] # "absent"
                                /\ (disk[r] = "nogit" \/ probe_fails(r))})
             /\ repair_prescan(slow) =
                   {r \in Repos : /\ ssh_url[r]
                                  /\ health_class(disk[r], r \in slow) = "broken"}
    /\ mode = "health_check" /\ answer = "yes" =>
          /\ stats.healthy + stats.broken + stats.missing = Len(ssh_url)
          /\ stats.missing = Cardinality({r \in Repos : disk[r] = "absent"})
    /\ mode = "repair" /\ answer = "yes" /\ idx = 0 =>
          \E slow \in SUBSET Repos :
             broken_repos = {r \in Repos :
                               /\ ssh_url[r]
                               /\ health_class(disk[r], r \in slow) = "broken"}

C22_Witness ==
    /\ mode = "health_check" /\ answer = "yes"
    /\ stats.broken = 1 /\ stats.missing = 1
    /\ \E r \in Repos : disk[r] = "healthy"

\* C23: for every statistics record a bulk mode produces, with or without a
\* loaded user, rendering the summary and building the log record both
\* finish without raising, and the log's statistics carry exactly the fields
\* the record has, a missing field staying absent.
C23_SummaryAndLogTolerant ==
    mode \in BulkModes /\ answer = "yes" =>
        /\ _show_sync_summary(stats) = "shown"
        /\ \A user \in BOOLEAN :
              LET data == log_data(mode, stats, user)
              IN /\ DOMAIN data.statistics = DOMAIN stats \ {"durations"}
                 /\ \A k \in DOMAIN data.statistics : data.statistics[k] = stats[k]

\* C24: every progress report of a bulk run is made after a unit of work
\* has completed and carries the number of units completed so far: the
\* counts stay within 1..total with total > 0, never decrease, and the last
\* report of a run that processed everything carries completed = total.
C24_ProgressAfterCompletion ==
    /\ \A k \in DOMAIN progress :
          /\ progress[k].total_count > 0
          /\ progress[k].completed_count \in 1..progress[k].total_count
          /\ progress[k].completed_count = progress[k].done
          /\ k > 1 => progress[k - 1].completed_count <= progress[k].completed_count
    /\ RunEnded /\ Len(results) = Len(repo_list) /\ progress # <<>> =>
          progress[Len(progress)].completed_count
             = progress[Len(progress)].total_count

\* C27: reclone-all removes the local copy of a record only when the record
\* has an ssh_url to clone from: a record without ssh_url that had a local
\* copy when the run came to it still has it.
C27_RecloneKeepsUnclonable ==
    mode = "reclone_all" /\ answer = "yes" =>
        \A i \in DOMAIN ops :
           (ops[i].action = "remove" /\ ~ops[i].ssh /\ ops[i].clone)
              => HasClone(disk[ops[i].repo])

\* The three delete operations.
DeleteModes == {"delete_single", "delete_local", "delete_all"}

\* C28: a delete operation that was declined or met a removal error leaves
\* local_exists and need_update of every record unchanged, and a delete
\* changes the two flags (to false and true) only for records whose
\* directory it removed, so a flag cleared by a delete means the directory
\* is gone.
C28_DeleteFlagsFollowRemoval ==
    [][mode = "menu" /\ mode' \in DeleteModes =>
          /\ answer' \in {"no", "error"} =>
                local_exists' = local_exists /\ need_update' = need_update
          /\ \A r \in Repos :
                (local_exists'[r] # local_exists[r]
                   \/ need_update'[r] # need_update[r]) =>
                    /\ ~local_exists'[r] /\ need_update'[r]
                    /\ ~PathExists(disk'[r])]_vars

\* The calls of the running invocation that did not return true.
FailedAttempts == {i \in DOMAIN step_calls : step_calls[i] # "true"}

\* C25: _run_step_with_retry calls the step at most max_retries + 1 times
\* and then returns: no call follows a call that returned true, a call that
\* raises counts like one that returned false, the result is true exactly
\* when some call returned true, and on return _retry_counts[step_name] is
\* the number of failed attempts of this invocation.
C25_RetryBounded ==
    retry_pc # "idle" =>
        /\ Len(step_calls) <= MaxOf(0, max_retries + 1)
        /\ \A i \in DOMAIN step_calls :
              i < Len(step_calls) => step_calls[i] # "true"
        /\ _retry_counts[step_name] = Cardinality(FailedAttempts)
        /\ retry_pc = "loop" =>
              /\ retry_count = Len(step_calls)
              /\ ENABLED (_run_step_with_retry_attempt
                            \/ _run_step_with_retry_exhausted)
        /\ retry_pc = "returned" =>
              /\ retry_result = (\E i \in DOMAIN step_calls : step_calls[i] = "true")
              /\ ~retry_result => Len(step_calls) = MaxOf(0, max_retries + 1)

C25_Witness ==
    /\ retry_pc = "returned"
    /\ retry_result
    /\ step_calls = <<"raises", "false", "true">>
    /\ retry_runs = 2

\* C26: get_menu_choice returns only an integer within
\* [min_choice, max_choice], whatever is entered, end of input included; so
\* at a prompt whose range starts at 1 no user and no key type is chosen
\* without a valid entry within the range.
C26_ChoiceWithinRange ==
    /\ prompt_pc = "returned" => menu_choice \in min_choice..max_choice
    /\ picked \in {"user selected", "user offered", "user deleted", "key type"}
          => menu_choice \in min_choice..max_choice
    /\ picked # "KeyError"

\* C29: entering a submenu pushes the current menu on menu_stack, and
\* leaving it with Back restores current_menu to its value at entry and
\* menu_stack to its length at entry; menu_stack.pop() is never called on an
\* empty list, also after Restart has entered the main menu again.
C29_MenuStackBalanced ==
    [][/\ ~pop_error'
       /\ frames' # <<>> =>
             /\ current_menu' = frames'[Len(frames')].menu
             /\ frames'[Len(frames')].menu \in Submenus =>
                   /\ menu_stack' # <<>>
                   /\ Len(menu_stack') = frames'[Len(frames')].entry_len + 1
                   /\ menu_stack'[Len(menu_stack')] = frames'[Len(frames')].entry_menu
       /\ backs' = backs + 1 =>
             /\ Top.menu \in Submenus
             /\ current_menu' = Top.entry_menu
             /\ Len(menu_stack') = Top.entry_len
             /\ frames' = SubSeq(frames, 1, Len(frames) - 1)]_vars

C29_Witness ==
    /\ backs = 2
    /\ Len(frames) = 2
    /\ current_menu = "main"
    /\ menu_stack = <<>>

\* The sizes of the items that were removed, in list order.
RemovedSizes ==
    LET kept == FilterSeq([i \in DOMAIN files |-> i], removed_items)
    IN [k \in DOMAIN kept |-> files[kept[k]]]

\* C30: whatever items clean_log_files could and could not remove, the
\* removed count it reports is the number of items removed and the freed
\* size it reports is the sum of the sizes of exactly those items.
C30_FreedSizeOfRemoved ==
    clean_pc = "reported" =>
        /\ removed_count = Cardinality(removed_items)
        /\ cleaned_size = SumSizes(RemovedSizes)

====
